---- MODULE Spec2Model ----
(***************************************************************************)
(* Model of the expense store (expense_tracker_app/data_manager.py,        *)
(* class DataManager) and of the parts of the budget ledger it calls.      *)
(*                                                                         *)
(* Representation                                                          *)
(*   str            a sequence of one-character strings, <<"F","o","o">>   *)
(*   dict           an insertion-ordered sequence of [k |-> key, v |-> val]*)
(*   expense record a TLA+ record; the key "id" may be missing             *)
(*   date text      "YYYY-MM-DD" as <<y, m, d>>; the same date written     *)
(*                  without leading zeros ("2024-1-5") as                  *)
(*                  <<y, m, d, "short">>; numbers that are no calendar     *)
(*                  date fail the range check of strptime                  *)
(*   None           the empty sequence <<>> in an optional slot, the value *)
(*                  <<x>> when the slot holds x                            *)
(***************************************************************************)
EXTENDS Integers, Sequences, FiniteSets, TLC

VARIABLES
    expenses,      \* DataManager.expenses: dict category -> list of records
    categories,    \* DataManager.categories: the registry, a list of str
    last_deleted,  \* DataManager.last_deleted: None or (category, record)
    last_cleared,  \* DataManager.last_cleared: None or a dict snapshot
    budgets,       \* BudgetManager.budgets: dict category -> amount
    file,          \* the file at DataManager.filename: None or saved data
    budget_file,   \* the file budgets.json: None or the saved budgets
    writable,      \* environment: whether opening the file for writing works
    name_text,     \* the str normalize_category_name is called with, and
                   \* what it returned once it was called
    calls_left,    \* the number of calls the run still makes
    op,            \* history: the last call (its name) and what it returned
    before         \* history: the store before the delete_expense or
                   \* clear_all that is the last call or the call right
                   \* before the last one (None when there is none)

vars == <<expenses, categories, last_deleted, last_cleared, budgets, file,
          budget_file, writable, name_text, calls_left, op, before>>

-----------------------------------------------------------------------------
(* Python str methods over the ASCII letters, the space and two characters  *)
(* outside ASCII: U+0149 (small n preceded by apostrophe), whose title-case *)
(* form is the two characters U+02BC and N, and U+02BC (modifier letter     *)
(* apostrophe), which has no case. Both are written by their code point.    *)

Chr_0149 == "U+0149"
Chr_02BC == "U+02BC"

Lower == <<"a","b","c","d","e","f","g","h","i","j","k","l","m",
           "n","o","p","q","r","s","t","u","v","w","x","y","z">>
Upper == <<"A","B","C","D","E","F","G","H","I","J","K","L","M",
           "N","O","P","Q","R","S","T","U","V","W","X","Y","Z">>

Letters == 1..Len(Lower)
LowerSet == {Lower[i] : i \in Letters}
UpperSet == {Upper[i] : i \in Letters}
IsLowerChar(c) == c \in LowerSet
IsUpperChar(c) == c \in UpperSet
IsSpace(c) == c = " "

\* the tables of str.upper, str.lower and ord on one letter
UpperOf == [c \in LowerSet |-> Upper[CHOOSE i \in Letters : Lower[i] = c]]
LowerOf == [c \in UpperSet |-> Lower[CHOOSE i \in Letters : Upper[i] = c]]
OrdOf ==
    [c \in LowerSet \cup UpperSet |->
        IF c \in UpperSet THEN 64 + (CHOOSE i \in Letters : Upper[i] = c)
        ELSE 96 + (CHOOSE i \in Letters : Lower[i] = c)]

UpperChar(c) == IF IsLowerChar(c) THEN UpperOf[c] ELSE c
LowerChar(c) == IF IsUpperChar(c) THEN LowerOf[c] ELSE c

\* ord(c): the code point, which orders str values in list.sort
Ord(c) ==
    IF IsSpace(c) THEN 32
    ELSE IF c = Chr_0149 THEN 329
    ELSE IF c = Chr_02BC THEN 700
    ELSE OrdOf[c]

\* str.lower()
lower(s) == [i \in 1..Len(s) |-> LowerChar(s[i])]

\* the title-case form of a character, one character or more
TitleOf(c) == IF c = Chr_0149 THEN <<Chr_02BC, "N">> ELSE <<UpperChar(c)>>

\* str.capitalize(): first character in title case, the rest lower case
capitalize(w) ==
    IF w = <<>> THEN w
    ELSE TitleOf(w[1]) \o [i \in 1..(Len(w) - 1) |-> LowerChar(w[i + 1])]

\* str.strip(): leading and trailing whitespace removed
RECURSIVE lstrip(_)
lstrip(s) == IF s # <<>> /\ IsSpace(s[1]) THEN lstrip(Tail(s)) ELSE s
RECURSIVE rstrip(_)
rstrip(s) ==
    IF s # <<>> /\ IsSpace(s[Len(s)]) THEN rstrip(SubSeq(s, 1, Len(s) - 1)) ELSE s
strip(s) == rstrip(lstrip(s))

\* str.split(): the maximal runs of non-whitespace characters, in order
RECURSIVE SplitFrom(_, _, _)
SplitFrom(s, cur, acc) ==
    IF s = <<>> THEN (IF cur = <<>> THEN acc ELSE Append(acc, cur))
    ELSE IF IsSpace(s[1])
         THEN SplitFrom(Tail(s), <<>>, IF cur = <<>> THEN acc ELSE Append(acc, cur))
         ELSE SplitFrom(Tail(s), Append(cur, s[1]), acc)
split(s) == SplitFrom(s, <<>>, <<>>)

\* ' '.join(words)
RECURSIVE join(_)
join(words) ==
    IF words = <<>> THEN <<>>
    ELSE IF Len(words) = 1 THEN words[1]
    ELSE words[1] \o <<" ">> \o join(Tail(words))

\* a < b for str: lexicographic by code point
RECURSIVE StrLess(_, _)
StrLess(a, b) ==
    IF b = <<>> THEN FALSE
    ELSE IF a = <<>> THEN TRUE
    ELSE IF Ord(a[1]) # Ord(b[1]) THEN Ord(a[1]) < Ord(b[1])
    ELSE StrLess(Tail(a), Tail(b))

\* list.sort() / sorted() of a list of str (insertion sort; stable)
RECURSIVE InsertSorted(_, _)
InsertSorted(x, xs) ==
    IF xs = <<>> THEN <<x>>
    ELSE IF StrLess(x, xs[1]) THEN <<x>> \o xs
    ELSE <<xs[1]>> \o InsertSorted(x, Tail(xs))
RECURSIVE sorted(_)
sorted(xs) ==
    IF xs = <<>> THEN <<>>
    ELSE InsertSorted(xs[Len(xs)], sorted(SubSeq(xs, 1, Len(xs) - 1)))

-----------------------------------------------------------------------------
(* Python list and dict operations.                                         *)

Contains(xs, x) == \E i \in 1..Len(xs) : xs[i] = x

\* list.remove(x): the first element equal to x is removed
RECURSIVE ListRemove(_, _)
ListRemove(xs, x) ==
    IF xs = <<>> THEN <<>>
    ELSE IF xs[1] = x THEN Tail(xs)
    ELSE <<xs[1]>> \o ListRemove(Tail(xs), x)

KeySet(d) == {d[i].k : i \in 1..Len(d)}
HasKey(d, k) == \E i \in 1..Len(d) : d[i].k = k
Get(d, k) == d[CHOOSE i \in 1..Len(d) : d[i].k = k].v
\* d[k] = v: an existing key keeps its place, a new key goes last
Put(d, k, v) ==
    IF HasKey(d, k)
    THEN [i \in 1..Len(d) |-> IF d[i].k = k THEN [k |-> k, v |-> v] ELSE d[i]]
    ELSE Append(d, [k |-> k, v |-> v])
\* del d[k]
Del(d, k) == SelectSeq(d, LAMBDA e : e.k # k)
\* d1 == d2 for dicts: same keys with equal values, whatever the key order
DictEq(d1, d2) ==
    /\ KeySet(d1) = KeySet(d2)
    /\ \A k \in KeySet(d1) : Get(d1, k) = Get(d2, k)

\* record.get(key, default) for the optional key "id"
GetId(r, default) == IF "id" \in DOMAIN r THEN r.id ELSE default

RECURSIVE MaxOf(_)
MaxOf(xs) ==
    IF Len(xs) = 1 THEN xs[1]
    ELSE LET m == MaxOf(Tail(xs)) IN IF xs[1] > m THEN xs[1] ELSE m

-----------------------------------------------------------------------------
(* Values.                                                                  *)

None == <<>>
Some(x) == <<x>>

Str_Food == <<"F","o","o","d">>
Str_Medical == <<"M","e","d","i","c","a","l">>
Str_Utilities == <<"U","t","i","l","i","t","i","e","s">>
Str_Travel == <<"T","r","a","v","e","l">>
Str_Clothing == <<"C","l","o","t","h","i","n","g">>
Str_Transportation == <<"T","r","a","n","s","p","o","r","t","a","t","i","o","n">>
Str_Vehicle == <<"V","e","h","i","c","l","e">>
Str_Uncategorized == <<"U","n","c","a","t","e","g","o","r","i","z","e","d">>

\* spellings a caller types: "food", " pet  CARE" and its canonical "Pet Care"
Str_food == <<"f","o","o","d">>
Str_pet_care == <<" ","p","e","t"," "," ","C","A","R","E">>
Str_Pet_Care == <<"P","e","t"," ","C","a","r","e">>
\* "PET CARE", the spelling a budget is set with
Str_PET_CARE == <<"P","E","T"," ","C","A","R","E">>

\* the starter registry of DataManager.__init__
DefaultCategories ==
    <<Str_Food, Str_Medical, Str_Utilities, Str_Travel, Str_Clothing,
      Str_Transportation, Str_Vehicle, Str_Uncategorized>>

\* the object: the fields of DataManager, its budget manager's budgets, and
\* the file it reads and writes
Self ==
    [expenses |-> expenses, categories |-> categories,
     last_deleted |-> last_deleted, last_cleared |-> last_cleared,
     budgets |-> budgets, file |-> file, budget_file |-> budget_file,
     writable |-> writable]

\* what a call leaves behind: the object, the returned value (ret, with msg
\* for a (bool, message) pair and n for a returned count), and whether the
\* call ended by raising
Return(self, ret, msg) == [self |-> self, ret |-> ret, msg |-> msg, n |-> 0, raised |-> FALSE]
ReturnList(self, xs) == [self |-> self, ret |-> TRUE, msg |-> xs, n |-> Len(xs), raised |-> FALSE]
ReturnCount(self, n) == [self |-> self, ret |-> TRUE, msg |-> <<>>, n |-> n, raised |-> FALSE]
Raise(self, msg) == [self |-> self, ret |-> FALSE, msg |-> msg, n |-> 0, raised |-> TRUE]

-----------------------------------------------------------------------------
(* datetime.strptime(date, "%Y-%m-%d")                                      *)

IsLeapYear(y) == (y % 4 = 0 /\ y % 100 # 0) \/ y % 400 = 0
DaysInMonth(y, m) ==
    IF m \in {4, 6, 9, 11} THEN 30
    ELSE IF m = 2 THEN (IF IsLeapYear(y) THEN 29 ELSE 28)
    ELSE 31
\* TRUE when strptime(date, "%Y-%m-%d") parses the text, FALSE when it raises
\* ValueError: %m and %d take one or two digits, so the text need not be
\* zero-padded; the numbers have to be a calendar date
strptime_ok(date) ==
    /\ Len(date) \in {3, 4}
    /\ date[1] \in 1..9999
    /\ date[2] \in 1..12
    /\ date[3] \in 1..DaysInMonth(date[1], date[2])

\* float(x) of an input [num |-> n] (a number or numeric text) or
\* [str |-> s] (text that is no number): defined only for the former
float_ok(x) == "num" \in DOMAIN x
float(x) == x.num

-----------------------------------------------------------------------------
(* DataManager                                                              *)

\* json.dump: the text written for a record, a JSON object whose members
\* are the keys the record has, numbers for id and amount, strings for date
\* and description
json_dump_record(rec) ==
    [object |->
        [i \in 1..Len(SelectSeq(<<"id", "amount", "date", "description">>,
                                LAMBDA n : n \in DOMAIN rec)) |->
            LET n == SelectSeq(<<"id", "amount", "date", "description">>,
                               LAMBDA m : m \in DOMAIN rec)[i]
            IN [name |-> n,
                value |-> IF n \in {"id", "amount"}
                          THEN [number |-> rec[n]] ELSE [string |-> rec[n]]]]]

\* the text with the "categories" member left out
json_dump_expenses_only(data) ==
    [expenses |->
        [object |->
            [i \in 1..Len(data.expenses) |->
                [name |-> data.expenses[i].k,
                 value |-> [array |->
                     [j \in 1..Len(data.expenses[i].v) |->
                         json_dump_record(data.expenses[i].v[j])]]]]]]

\* json.dump(data, f) for data = {"expenses": ..., "categories": ...}: an
\* object of category -> array of record objects, and an array of strings
json_dump(data) ==
    [expenses |->
        [object |->
            [i \in 1..Len(data.expenses) |->
                [name |-> data.expenses[i].k,
                 value |-> [array |->
                     [j \in 1..Len(data.expenses[i].v) |->
                         json_dump_record(data.expenses[i].v[j])]]]]],
     categories |->
        [array |-> [i \in 1..Len(data.categories) |-> [string |-> data.categories[i]]]]]

\* json.load of a number or a string
json_load_value(v) == IF "number" \in DOMAIN v THEN v.number ELSE v.string

\* json.load of a record object: a dict of its members (the last member of
\* a name wins)
json_load_record(obj) ==
    LET ms == obj.object
        last(n) == CHOOSE i \in 1..Len(ms) :
                      ms[i].name = n /\ \A j \in (i + 1)..Len(ms) : ms[j].name # n
    IN [n \in {ms[i].name : i \in 1..Len(ms)} |-> json_load_value(ms[last(n)].value)]

\* json.load(f): the dict of the members the text has
json_load(text) ==
    LET exp == [i \in 1..Len(text.expenses.object) |->
                  [k |-> text.expenses.object[i].name,
                   v |-> [j \in 1..Len(text.expenses.object[i].value.array) |->
                            json_load_record(text.expenses.object[i].value.array[j])]]]
    IN IF "categories" \in DOMAIN text
       THEN [expenses |-> exp,
             categories |-> [i \in 1..Len(text.categories.array) |->
                                text.categories.array[i].string]]
       ELSE [expenses |-> exp]

\* save_data: the whole snapshot is written; a failed write is logged only
save_data(self) ==
    IF self.writable
    THEN [self EXCEPT !.file =
             Some(json_dump([expenses |-> self.expenses,
                             categories |-> self.categories]))]
    ELSE self

\* record["id"] = expense_id
WithId(record, expense_id) ==
    [n \in DOMAIN record \cup {"id"} |-> IF n = "id" THEN expense_id ELSE record[n]]

\* the inner loop of load_expense over the records of a category: the list
\* with ids given to the records that lack one, and the next id
RECURSIVE EnsureIdsIn(_, _, _)
EnsureIdsIn(records, j, expense_id) ==
    IF j > Len(records) THEN [records |-> records, expense_id |-> expense_id]
    ELSE IF "id" \in DOMAIN records[j] THEN EnsureIdsIn(records, j + 1, expense_id)
    ELSE EnsureIdsIn([records EXCEPT ![j] = WithId(records[j], expense_id)],
                     j + 1, expense_id + 1)

\* the outer loop of load_expense over the categories
RECURSIVE EnsureIds(_, _, _)
EnsureIds(d, i, expense_id) ==
    IF i > Len(d) THEN d
    ELSE LET res == EnsureIdsIn(d[i].v, 1, expense_id)
         IN EnsureIds([d EXCEPT ![i].v = res.records], i + 1, res.expense_id)

\* load_expense of the file save_data writes (a file that is no JSON text
\* does not occur); nothing is returned, msg tells whether a file was read
load_expense(self) ==
    IF self.file = None THEN Return(self, FALSE, <<"No existing expense file found">>)
    ELSE LET data == json_load(self.file[1])
             loaded_expenses == IF "expenses" \in DOMAIN data THEN data.expenses ELSE <<>>
             loaded_categories == IF "categories" \in DOMAIN data THEN data.categories
                                  ELSE self.categories
             s1 == [self EXCEPT !.expenses = EnsureIds(loaded_expenses, 1, 1),
                                !.categories = loaded_categories]
         IN Return(s1, FALSE, <<"Loaded">>)

\* normalize_category_name without the capitalize() of each word
normalize_without_capitalize(category) ==
    IF category = <<>> \/ strip(category) = <<>> THEN category
    ELSE LET words == split(category)
         IN join([i \in 1..Len(words) |-> strip(words[i])])

normalize_category_name(category) ==
    IF category = <<>> \/ strip(category) = <<>> THEN category
    ELSE LET words == split(category)
         IN join([i \in 1..Len(words) |-> capitalize(strip(words[i]))])

\* self.normalize_category_name(category) as the methods call it: the names
\* that occur in every run are normalized once and looked up afterwards
KnownNames ==
    {DefaultCategories[i] : i \in 1..Len(DefaultCategories)}
    \cup {Str_food, Str_pet_care, Str_Pet_Care, Str_PET_CARE}
NormalizedName == [s \in KnownNames |-> normalize_category_name(s)]
Normalize(category) ==
    IF category \in KnownNames THEN NormalizedName[category]
    ELSE normalize_category_name(category)

\* category_exists comparing the spellings as typed
category_exists_exact(self, category) ==
    IF Contains(self.categories, category)
    THEN [found |-> TRUE, name |-> category]
    ELSE [found |-> FALSE, name |-> None]

RECURSIVE CategoryExistsFrom(_, _, _)
CategoryExistsFrom(cats, i, normalized_input) ==
    IF i > Len(cats) THEN [found |-> FALSE, name |-> None]
    ELSE IF Normalize(cats[i]) = normalized_input
         THEN [found |-> TRUE, name |-> cats[i]]
         ELSE CategoryExistsFrom(cats, i + 1, normalized_input)
category_exists(self, category) ==
    CategoryExistsFrom(self.categories, 1, Normalize(category))

\* list_all_expenses: the flat list; the records it builds carry the
\* category, amount, date and description, and no id
RECURSIVE FlattenFrom(_, _)
FlattenFrom(d, i) ==
    IF i > Len(d) THEN <<>>
    ELSE [j \in 1..Len(d[i].v) |->
            [category |-> d[i].k, amount |-> d[i].v[j].amount,
             date |-> d[i].v[j].date, description |-> d[i].v[j].description]]
         \o FlattenFrom(d, i + 1)
list_all_expenses(self) == FlattenFrom(self.expenses, 1)

\* the id add_expense gives the new record
new_expense_id(self) ==
    LET all_expenses == list_all_expenses(self)
        max_id == IF all_expenses # <<>>
                  THEN MaxOf([i \in 1..Len(all_expenses) |-> GetId(all_expenses[i], 0)])
                  ELSE 0
    IN max_id + 1

\* the append with the key's list replaced by the new record alone
AppendToReplacing(d, k, x) == Put(d, k, <<x>>)

\* dict.setdefault(k, []).append(x)
AppendTo(d, k, x) == Put(d, k, Append(IF HasKey(d, k) THEN Get(d, k) ELSE <<>>, x))

\* add_expense's amount check: float(amount) succeeds and is above zero
amount_valid(amount) == float_ok(amount) /\ float(amount) > 0

add_expense(self, category, amount, date, description) ==
    IF ~amount_valid(amount)
    THEN Raise(self, <<"Amount must be a valid number">>)
    ELSE IF ~strptime_ok(date)
    THEN Raise(self, <<"Date must be in YYYY-MM-DD format">>)
    ELSE
    LET normalized_category == Normalize(category)
        cats == IF ~Contains(self.categories, normalized_category)
                THEN sorted(Append(self.categories, normalized_category))
                ELSE self.categories
        s1 == [self EXCEPT !.categories = cats]
        new_record == [id |-> new_expense_id(s1), amount |-> float(amount),
                       date |-> date, description |-> description]
        s2 == [s1 EXCEPT !.expenses = AppendTo(s1.expenses, normalized_category, new_record)]
    IN Return(save_data(s2), TRUE, <<>>)

\* the record delete_expense removes for a dict argument: the argument itself
\* when the list holds an equal record, else the first record with the same
\* amount, date and description; None when there is neither
RECURSIVE FieldMatchAmountOnly(_, _, _)
FieldMatchAmountOnly(records, i, record) ==
    IF i > Len(records) THEN None
    ELSE IF records[i].amount = record.amount
         THEN Some(records[i])
         ELSE FieldMatchAmountOnly(records, i + 1, record)

RECURSIVE FieldMatchFrom(_, _, _)
FieldMatchFrom(records, i, record) ==
    IF i > Len(records) THEN None
    ELSE IF /\ records[i].amount = record.amount
            /\ records[i].date = record.date
            /\ records[i].description = record.description
         THEN Some(records[i])
         ELSE FieldMatchFrom(records, i + 1, record)

\* the common tail of the three successful branches of delete_expense
DeleteFound(self, normalized_category, record_to_delete) ==
    LET s1 == [self EXCEPT
                 !.expenses = Put(self.expenses, normalized_category,
                                  ListRemove(Get(self.expenses, normalized_category),
                                             record_to_delete)),
                 !.last_deleted = Some([category |-> normalized_category,
                                        record |-> record_to_delete])]
    IN Return(save_data(s1), TRUE, <<>>)

\* record is [idx |-> i] for an int argument, [rec |-> r] for a dict
delete_expense(self, category, record) ==
    LET normalized_category == Normalize(category) IN
    IF ~HasKey(self.expenses, normalized_category) THEN Return(self, FALSE, <<>>)
    ELSE
    LET records == Get(self.expenses, normalized_category) IN
    IF "idx" \in DOMAIN record
    THEN IF 0 <= record.idx /\ record.idx < Len(records)
         THEN DeleteFound(self, normalized_category, records[record.idx + 1])
         ELSE Return(self, FALSE, <<>>)
    ELSE IF Contains(records, record.rec)
    THEN DeleteFound(self, normalized_category, record.rec)
    ELSE LET m == FieldMatchFrom(records, 1, record.rec)
         IN IF m # None
            THEN DeleteFound(self, normalized_category, m[1])
            ELSE Return(self, FALSE, <<>>)

undo_delete(self) ==
    IF self.last_cleared # None
    THEN LET s1 == [self EXCEPT !.expenses = self.last_cleared[1],
                                !.last_cleared = None]
         IN Return(save_data(s1), TRUE, <<>>)
    ELSE IF self.last_deleted # None
    THEN LET category == self.last_deleted[1].category
             record == self.last_deleted[1].record
             s1 == [self EXCEPT !.expenses = AppendTo(self.expenses, category, record),
                                !.last_deleted = None]
         IN Return(save_data(s1), TRUE, <<>>)
    ELSE Return(self, FALSE, <<>>)

\* clear_all with the two assignments in the other order
clear_all_snapshot_after_reset(self) ==
    LET s1 == [self EXCEPT !.expenses = <<>>, !.last_cleared = Some(<<>>)]
    IN Return(save_data(s1), TRUE, <<>>)

clear_all(self) ==
    LET s1 == [self EXCEPT !.last_cleared = Some(self.expenses),
                           !.expenses = <<>>]
    IN Return(save_data(s1), TRUE, <<>>)

\* `if self.last_cleared`: a snapshot that is an empty dict counts as absent
undo_clear(self) ==
    IF self.last_cleared # None /\ self.last_cleared[1] # <<>>
    THEN LET s1 == [self EXCEPT !.expenses = self.last_cleared[1],
                                !.last_cleared = None]
         IN Return(save_data(s1), TRUE, <<>>)
    ELSE Return(self, FALSE, <<>>)

\* new_data is a record with any of the keys category, amount, date,
\* description; the record appended carries no id
update_expense(self, old_category, old_record, new_data) ==
    LET normalized_old_category == Normalize(old_category) IN
    IF \/ ~HasKey(self.expenses, normalized_old_category)
       \/ ~Contains(Get(self.expenses, normalized_old_category), old_record)
    THEN Return(self, FALSE, <<>>)
    ELSE
    LET s1 == [self EXCEPT
                 !.expenses = Put(self.expenses, normalized_old_category,
                                  ListRemove(Get(self.expenses, normalized_old_category),
                                             old_record))]
        category == Normalize(
                        IF "category" \in DOMAIN new_data THEN new_data.category
                        ELSE normalized_old_category)
        amount_in == IF "amount" \in DOMAIN new_data THEN new_data.amount
                     ELSE [num |-> old_record.amount]
    IN IF ~float_ok(amount_in) THEN Raise(s1, <<"could not convert string to float">>)
       ELSE
       LET date == IF "date" \in DOMAIN new_data THEN new_data.date ELSE old_record.date
           desc == IF "description" \in DOMAIN new_data THEN new_data.description
                   ELSE old_record.description
           s2 == [s1 EXCEPT !.expenses =
                     AppendTo(s1.expenses, category,
                              [amount |-> float(amount_in), date |-> date,
                               description |-> desc])]
       IN Return(save_data(s2), TRUE, <<>>)

\* sum(rec.get("amount", 0.0) or 0.0 for rec in records)
RECURSIVE SumAmounts(_, _)
SumAmounts(records, i) ==
    IF i > Len(records) THEN 0
    ELSE (IF "amount" \in DOMAIN records[i] THEN records[i].amount ELSE 0)
         + SumAmounts(records, i + 1)

\* get_category_subtotals: a dict category -> subtotal, in key order
get_category_subtotals(self) ==
    [i \in 1..Len(self.expenses) |->
        [k |-> self.expenses[i].k, v |-> SumAmounts(self.expenses[i].v, 1)]]

\* r.get("date") is truthy: the record has a date and it is not ""
HasDate(r) == "date" \in DOMAIN r /\ r.date # <<>>

\* the sort key of get_sorted_expenses: the parsed date as <<y, m, d, 0>>,
\* datetime.max as <<9999, 12, 31, 1>> for a record without a date
SortKey(r) ==
    IF HasDate(r) THEN <<r.date[1], r.date[2], r.date[3], 0>> ELSE <<9999, 12, 31, 1>>

\* a < b for two sort keys
KeyLess(a, b) ==
    \E i \in 1..4 : a[i] < b[i] /\ \A j \in 1..(i - 1) : a[j] = b[j]

\* sorted(records, key=...): stable, ascending by key
RECURSIVE InsertByKey(_, _)
InsertByKey(x, xs) ==
    IF xs = <<>> THEN <<x>>
    ELSE IF KeyLess(SortKey(x), SortKey(xs[1])) THEN <<x>> \o xs
    ELSE <<xs[1]>> \o InsertByKey(x, Tail(xs))
RECURSIVE SortedByKey(_)
SortedByKey(xs) ==
    IF xs = <<>> THEN <<>>
    ELSE InsertByKey(xs[Len(xs)], SortedByKey(SubSeq(xs, 1, Len(xs) - 1)))

\* one category of get_sorted_expenses: strptime raising on any record that
\* has a date makes the except branch return the list as stored
SortedRecords(records) ==
    IF \E i \in 1..Len(records) : HasDate(records[i]) /\ ~strptime_ok(records[i].date)
    THEN records
    ELSE SortedByKey(records)

\* get_sorted_expenses: a new dict, self is left as it is
get_sorted_expenses(self) ==
    ReturnList(self, [i \in 1..Len(self.expenses) |->
                        [k |-> self.expenses[i].k, v |-> SortedRecords(self.expenses[i].v)]])

\* add_category with every resubmission of a registered name refused
ExistingCategoryAlwaysRefused(self, category, existing_name) ==
    Return(self, FALSE, <<"already exists", existing_name, category>>)

\* what add_category returns for a name that category_exists finds
ExistingCategoryReply(self, category, existing_name) ==
    IF category = existing_name
    THEN Return(self, TRUE, <<"is already in your list", existing_name>>)
    ELSE Return(self, FALSE, <<"already exists", existing_name, category>>)

\* merge_target is None or Some(name); a (bool, message) pair is returned,
\* the message as <<text, name, ...>>
add_category(self, category, merge_target) ==
    IF category = <<>> \/ strip(category) = <<>>
    THEN Return(self, FALSE, <<"Category cannot be empty">>)
    ELSE
    LET normalized_category == Normalize(category)
        e == category_exists(self, category)
    IN
    IF e.found
    THEN ExistingCategoryReply(self, category, e.name)
    ELSE IF merge_target # None /\ merge_target[1] # <<>>
    THEN LET normalized_merge_target == Normalize(merge_target[1]) IN
         IF \/ ~HasKey(self.expenses, category)
            \/ ~Contains(self.categories, normalized_merge_target)
         THEN Raise(self, <<"Cannot merge: category or target not found">>)
         ELSE
         LET moved == (IF HasKey(self.expenses, normalized_merge_target)
                       THEN Get(self.expenses, normalized_merge_target) ELSE <<>>)
                      \o Get(self.expenses, category)
             s1 == [self EXCEPT
                      !.expenses = Del(Put(self.expenses, normalized_merge_target, moved),
                                       category),
                      !.categories = IF Contains(self.categories, category)
                                     THEN ListRemove(self.categories, category)
                                     ELSE self.categories]
         IN Return(save_data(s1), TRUE, <<"added successfully", normalized_category>>)
    ELSE
    LET s1 == [self EXCEPT
                 !.categories = IF ~Contains(self.categories, normalized_category)
                                THEN sorted(Append(self.categories, normalized_category))
                                ELSE self.categories]
    IN Return(save_data(s1), TRUE, <<"added successfully", normalized_category>>)

\* the list with later repeats of an element dropped
RECURSIVE Dedup(_)
Dedup(xs) ==
    IF xs = <<>> THEN <<>>
    ELSE LET init == Dedup(SubSeq(xs, 1, Len(xs) - 1))
         IN IF Contains(init, xs[Len(xs)]) THEN init ELSE Append(init, xs[Len(xs)])

\* the loop of migrate_categories_to_proper_case over self.expenses: the
\* lists of keys with one normalized name are concatenated in dict order
RECURSIVE MergeExpenses(_, _, _)
MergeExpenses(d, i, new_expenses) ==
    IF i > Len(d) THEN new_expenses
    ELSE LET new_category == Normalize(d[i].k)
         IN MergeExpenses(d, i + 1,
                IF HasKey(new_expenses, new_category)
                THEN Put(new_expenses, new_category,
                         Get(new_expenses, new_category) \o d[i].v)
                ELSE Put(new_expenses, new_category, d[i].v))

\* the loop over the budgets: the higher amount of two merged keys is kept
RECURSIVE MergeBudgets(_, _, _)
MergeBudgets(d, i, new_budgets) ==
    IF i > Len(d) THEN new_budgets
    ELSE LET new_category == Normalize(d[i].k)
             old == IF HasKey(new_budgets, new_category)
                    THEN Get(new_budgets, new_category) ELSE d[i].v
         IN MergeBudgets(d, i + 1,
                Put(new_budgets, new_category, IF old > d[i].v THEN old ELSE d[i].v))

migrate_categories_to_proper_case(self) ==
    LET normalized == [i \in 1..Len(self.categories) |->
                          Normalize(self.categories[i])]
        category_mapping == {self.categories[i] : i \in
                                {j \in 1..Len(self.categories) :
                                    self.categories[j] # normalized[j]}}
        s1 == [self EXCEPT
                 !.categories = sorted(Dedup(normalized)),
                 !.expenses = MergeExpenses(self.expenses, 1, <<>>),
                 !.budgets = MergeBudgets(self.budgets, 1, <<>>)]
    IN ReturnCount(save_data(s1), Cardinality(category_mapping))

\* category_groups of auto_merge_duplicate_categories: normalized name -> the
\* keys of self.expenses that normalize to it, in dict order
RECURSIVE GroupKeys(_, _, _)
GroupKeys(d, i, groups) ==
    IF i > Len(d) THEN groups
    ELSE LET normalized == Normalize(d[i].k)
         IN GroupKeys(d, i + 1,
                Put(groups, normalized,
                    Append(IF HasKey(groups, normalized) THEN Get(groups, normalized)
                           ELSE <<>>, d[i].k)))

\* one group with duplicates merged into the key of the normalized name
RECURSIVE ConcatLists(_, _, _)
ConcatLists(d, keys, i) ==
    IF i > Len(keys) THEN <<>>
    ELSE (IF HasKey(d, keys[i]) THEN Get(d, keys[i]) ELSE <<>>)
         \o ConcatLists(d, keys, i + 1)
MergeGroup(d, normalized_category, duplicates) ==
    LET all_expenses == ConcatLists(d, duplicates, 1)
        kept == SelectSeq(d, LAMBDA e :
                    ~(Contains(duplicates, e.k) /\ e.k # normalized_category))
    IN Put(kept, normalized_category, all_expenses)

RECURSIVE MergeGroups(_, _, _)
MergeGroups(d, groups, i) ==
    IF i > Len(groups) THEN [expenses |-> d, merged_count |-> 0]
    ELSE IF Len(groups[i].v) > 1
         THEN LET rest == MergeGroups(MergeGroup(d, groups[i].k, groups[i].v),
                                      groups, i + 1)
              IN [rest EXCEPT !.merged_count = @ + 1]
         ELSE MergeGroups(d, groups, i + 1)

\* sorted(list(set(xs)))
SortedSet(xs) == sorted(Dedup(xs))

auto_merge_duplicate_categories(self) ==
    LET category_groups == GroupKeys(self.expenses, 1, <<>>)
        m == MergeGroups(self.expenses, category_groups, 1)
        s1 == [self EXCEPT
                 !.expenses = m.expenses,
                 !.categories = SortedSet([i \in 1..Len(self.categories) |->
                                    Normalize(self.categories[i])])]
    IN ReturnCount(IF m.merged_count > 0 THEN save_data(s1) ELSE s1, m.merged_count)

\* the move with the target's list replaced instead of extended
MoveExpensesOverwriting(d, source, merge_to) == Put(d, merge_to, Get(d, source))

\* remove_category's move of the source's records to the merge target: the
\* target's list is extended, or the source's list becomes the target's
MoveExpenses(d, source, merge_to) ==
    IF HasKey(d, merge_to)
    THEN Put(d, merge_to, Get(d, merge_to) \o Get(d, source))
    ELSE Put(d, merge_to, Get(d, source))

\* merge_to is None or Some(name)
remove_category(self, category, merge_to) ==
    LET normalized_category == Normalize(category) IN
    IF ~Contains(self.categories, normalized_category)
    THEN Return(self, FALSE, <<"Category not found">>)
    ELSE
    LET cats1 == IF ~Contains(self.categories, Str_Uncategorized)
                 THEN Append(self.categories, Str_Uncategorized)
                 ELSE self.categories
        has_expenses == /\ HasKey(self.expenses, normalized_category)
                        /\ Get(self.expenses, normalized_category) # <<>>
        target == IF merge_to = None THEN Str_Uncategorized
                  ELSE Normalize(merge_to[1])
        cats2 == IF /\ has_expenses
                    /\ merge_to # None
                    /\ ~Contains(cats1, target)
                    /\ target # Str_Uncategorized
                 THEN Append(cats1, target)
                 ELSE cats1
        exp1 == IF ~has_expenses THEN self.expenses
                ELSE MoveExpenses(self.expenses, normalized_category, target)
        exp2 == IF HasKey(exp1, normalized_category)
                THEN Del(exp1, normalized_category) ELSE exp1
        cats3 == IF Contains(cats2, normalized_category)
                 THEN ListRemove(cats2, normalized_category) ELSE cats2
        s1 == [self EXCEPT !.expenses = exp2, !.categories = cats3]
    IN Return(save_data(s1), TRUE, <<"removed successfully", normalized_category>>)

-----------------------------------------------------------------------------
(* BudgetManager                                                            *)

\* save_budgets: the budgets are written to budgets.json (with a time stamp
\* and fixed metadata); True when the write worked, False when it failed
save_budgets(self) ==
    IF self.writable
    THEN Return([self EXCEPT !.budget_file = Some(self.budgets)], TRUE, <<>>)
    ELSE Return(self, FALSE, <<>>)

\* the first name of a list that equals category_lower once lower-cased
RECURSIVE FirstMatch(_, _, _)
FirstMatch(names, i, category_lower) ==
    IF i > Len(names) THEN None
    ELSE IF lower(names[i]) = category_lower THEN Some(names[i])
    ELSE FirstMatch(names, i + 1, category_lower)

\* the keys of a dict in insertion order
Keys(d) == [i \in 1..Len(d) |-> d[i].k]

\* _normalize_category_name with the spelling kept as submitted
_normalize_as_submitted(self, category) == category

\* the spelling a budget is kept under: the first match ignoring case among
\* the budget keys, then the registry, then the categories of the expenses
\* (a set in the code; the keys of self.expenses never hold two names that
\* are equal ignoring case, so the order of the set decides nothing)
_normalize_category_name(self, category) ==
    LET category_lower == lower(category)
        in_budgets == FirstMatch(Keys(self.budgets), 1, category_lower)
        in_categories == FirstMatch(self.categories, 1, category_lower)
        all_expenses == list_all_expenses(self)
        expense_categories == [i \in 1..Len(all_expenses) |-> all_expenses[i].category]
        in_expenses == FirstMatch(expense_categories, 1, category_lower)
    IN IF in_budgets # None THEN in_budgets[1]
       ELSE IF in_categories # None THEN in_categories[1]
       ELSE IF in_expenses # None THEN in_expenses[1]
       ELSE category

\* amount is a number
set_budget(self, category, amount) ==
    IF amount < 0 THEN Return(self, FALSE, <<>>)
    ELSE LET normalized_category == _normalize_category_name(self, category)
             s1 == [self EXCEPT !.budgets = Put(self.budgets, normalized_category, amount)]
             saved == save_budgets(s1)
         IN Return(saved.self, saved.ret, <<>>)

remove_budget(self, category) ==
    LET normalized_category == _normalize_category_name(self, category) IN
    IF HasKey(self.budgets, normalized_category)
    THEN LET s1 == [self EXCEPT !.budgets = Del(self.budgets, normalized_category)]
             saved == save_budgets(s1)
         IN Return(saved.self, saved.ret, <<>>)
    ELSE Return(self, FALSE, <<>>)

\* expense_date.startswith(month) for month = "YYYY-MM": a text written
\* without leading zeros starts with it only when its month has two digits
startswith(date, month) ==
    /\ Len(date) >= 2
    /\ date[1] = month[1]
    /\ date[2] = month[2]
    /\ (Len(date) = 3 \/ date[2] >= 10)

\* the loop of _get_monthly_spending over list_all_expenses
RECURSIVE MonthlyTotalFrom(_, _, _, _)
MonthlyTotalFrom(all_expenses, i, category, month) ==
    IF i > Len(all_expenses) THEN 0
    ELSE (IF /\ lower(all_expenses[i].category) = lower(category)
             /\ startswith(all_expenses[i].date, month)
          THEN all_expenses[i].amount ELSE 0)
         + MonthlyTotalFrom(all_expenses, i + 1, category, month)

_get_monthly_spending(self, category, month) ==
    MonthlyTotalFrom(list_all_expenses(self), 1, category, month)

\* the alert with the warning given from 0.8 of the limit on
alert_for_closed_warning(category, monthly_spending, budget_limit) ==
    IF monthly_spending > budget_limit
    THEN Some([kind |-> "exceeded", category |-> category, spent |-> monthly_spending,
               limit |-> budget_limit, over |-> monthly_spending - budget_limit])
    ELSE IF monthly_spending * 10 >= budget_limit * 8
    THEN Some([kind |-> "approaching", category |-> category,
               spent |-> monthly_spending, limit |-> budget_limit])
    ELSE None

\* the alert check_budget_alerts appends for one budget, None for no alert:
\* "exceeded" with the amount over the budget, or "approaching". Amounts are
\* whole numbers and the limits multiples of 5, for which the float product
\* budget_limit * 0.8 is exact, so it is compared as tenths
alert_for(category, monthly_spending, budget_limit) ==
    IF monthly_spending > budget_limit
    THEN Some([kind |-> "exceeded", category |-> category, spent |-> monthly_spending,
               limit |-> budget_limit, over |-> monthly_spending - budget_limit])
    ELSE IF monthly_spending * 10 > budget_limit * 8
    THEN Some([kind |-> "approaching", category |-> category,
               spent |-> monthly_spending, limit |-> budget_limit])
    ELSE None

\* the loop of check_budget_alerts over the budgets
RECURSIVE AlertsFrom(_, _, _)
AlertsFrom(self, i, current_month) ==
    IF i > Len(self.budgets) THEN <<>>
    ELSE alert_for(self.budgets[i].k,
                   _get_monthly_spending(self, self.budgets[i].k, current_month),
                   self.budgets[i].v)
         \o AlertsFrom(self, i + 1, current_month)

\* current_month is datetime.now().strftime("%Y-%m") as <<y, m>>
check_budget_alerts(self, current_month) ==
    IF self.budgets = <<>> THEN ReturnList(self, <<>>)
    ELSE ReturnList(self, AlertsFrom(self, 1, current_month))

-----------------------------------------------------------------------------
(* Bounds and inputs.                                                       *)

\* the number of calls made on the object in one run
MaxCalls == 5
\* the same, in the runs that also call the category operations
MaxCatCalls == 4
\* the positions a caller passes to delete_expense are 0..MaxIndex
MaxIndex == 2

\* category names a caller passes: a registered spelling, the same name in
\* lower case, a new two-word name with stray spaces and capitals, and the
\* fallback category
StoreCategories == {Str_Food, Str_food}
AllCategories == {Str_Food, Str_food, Str_pet_care, Str_Uncategorized}
\* amounts: two valid ones, zero, and text that is no number
ValidAmounts == {[num |-> 10], [num |-> 20]}
AmountInputs == ValidAmounts \cup {[num |-> 0], [str |-> "abc"]}
\* dates: a valid one and the 30th of February
ValidDates == {<<2024, 1, 1>>}
DateInputs == ValidDates \cup {<<2024, 2, 30>>}
DescriptionInputs == {"Lunch"}

RECURSIVE CountRecords(_)
CountRecords(d) == IF d = <<>> THEN 0 ELSE Len(d[1].v) + CountRecords(Tail(d))

StoredRecords(d) == UNION {{d[i].v[j] : j \in 1..Len(d[i].v)} : i \in 1..Len(d)}

\* the dicts a caller passes for a record: the stored records themselves and
\* records built from the displayed fields, which carry no id
RecordInputs ==
    StoredRecords(expenses)
    \cup {[amount |-> float(a), date |-> d, description |-> ds] :
            a \in ValidAmounts, d \in ValidDates, ds \in DescriptionInputs}

\* the second argument of delete_expense: a position or a dict
IndexInputs == {[idx |-> i] : i \in 0..MaxIndex}
DeleteInputs == IndexInputs \cup {[rec |-> r] : r \in RecordInputs}

NewCategoryInputs(C) == {[category |-> c] : c \in C}
NewDataInputs(C) == {<<>>, [amount |-> [num |-> 20]]} \cup NewCategoryInputs(C)

Optional(C) == {None} \cup {Some(c) : c \in C}

\* the categories the expense operations are called with next to the
\* category operations
ExpenseCategories == {Str_food, Str_pet_care}

\* the merge targets add_category and remove_category are called with
MergeTargets == Optional({Str_Food, Str_pet_care})

-----------------------------------------------------------------------------
(* The state machine: one action per public method.                         *)

NoOp == [name |-> "init", ret |-> FALSE, msg |-> <<>>, n |-> 0, raised |-> FALSE]

\* the calls an undo reverses
Reversible == {"delete_expense", "clear_all"}

\* DataManager() where no expense file and no budget file exist
Init ==
    /\ expenses = <<>>
    /\ categories = DefaultCategories
    /\ last_deleted = None
    /\ last_cleared = None
    /\ budgets = <<>>
    /\ file = None
    /\ budget_file = None
    /\ writable = TRUE
    /\ name_text = <<>>
    /\ calls_left = MaxCalls
    /\ op = NoOp
    /\ before = None

\* the call `name` ran to its end (or raised) and left r
Call(name, result) ==
    \E r \in {result} :
        /\ calls_left > 0
        /\ calls_left' = calls_left - 1
        /\ expenses' = r.self.expenses
        /\ categories' = r.self.categories
        /\ last_deleted' = r.self.last_deleted
        /\ last_cleared' = r.self.last_cleared
        /\ budgets' = r.self.budgets
        /\ file' = r.self.file
        /\ budget_file' = r.self.budget_file
        /\ writable' = r.self.writable
        /\ name_text' = name_text
        /\ op' = [name |-> name, ret |-> r.ret, msg |-> r.msg, n |-> r.n,
                  raised |-> r.raised]
        /\ before' = IF name \in Reversible
                     THEN Some([name |-> name, ret |-> r.ret, expenses |-> expenses,
                                categories |-> categories])
                     ELSE IF op.name \in Reversible THEN before
                     ELSE None

AddExpense(C, A, D) ==
    \E category \in C, amount \in A, date \in D, description \in DescriptionInputs :
       Call("add_expense", add_expense(Self, category, amount, date, description))

DeleteExpense(C, R) ==
    \E category \in C, record \in R :
       Call("delete_expense", delete_expense(Self, category, record))

UndoDelete == Call("undo_delete", undo_delete(Self))

UpdateExpense(C, N) ==
    \E old_category \in C, old_record \in RecordInputs, new_data \in N :
       Call("update_expense", update_expense(Self, old_category, old_record, new_data))

ClearAll == Call("clear_all", clear_all(Self))

UndoClear == Call("undo_clear", undo_clear(Self))

AddCategory(C, T) ==
    \E category \in C, merge_target \in T :
       Call("add_category", add_category(Self, category, merge_target))

RemoveCategory(C, T) ==
    \E category \in C, merge_to \in T :
       Call("remove_category", remove_category(Self, category, merge_to))

MigrateCategories ==
    Call("migrate_categories_to_proper_case", migrate_categories_to_proper_case(Self))

AutoMerge ==
    Call("auto_merge_duplicate_categories", auto_merge_duplicate_categories(Self))

\* the expense operations, from an empty store
Next ==
    \/ AddExpense(StoreCategories, AmountInputs, DateInputs)
    \/ DeleteExpense(StoreCategories, DeleteInputs)
    \/ UndoDelete
    \/ UpdateExpense(StoreCategories, NewDataInputs(StoreCategories))
    \/ ClearAll
    \/ UndoClear

Spec == Init /\ [][Next]_vars

\* the expense and the category operations together, from the starter registry
InitCat ==
    /\ expenses = <<>>
    /\ categories = DefaultCategories
    /\ last_deleted = None
    /\ last_cleared = None
    /\ budgets = <<>>
    /\ file = None
    /\ budget_file = None
    /\ writable = TRUE
    /\ name_text = <<>>
    /\ calls_left = MaxCatCalls
    /\ op = NoOp
    /\ before = None

NextCat ==
    \/ AddExpense(ExpenseCategories, {[num |-> 10]}, ValidDates)
    \/ DeleteExpense(ExpenseCategories, {[idx |-> 0]})
    \/ UndoDelete
    \/ UpdateExpense(ExpenseCategories, NewCategoryInputs(ExpenseCategories))
    \/ ClearAll
    \/ UndoClear
    \/ AddCategory(AllCategories, MergeTargets)
    \/ RemoveCategory(AllCategories, MergeTargets)
    \/ MigrateCategories
    \/ AutoMerge

SpecCat == InitCat /\ [][NextCat]_vars

\* the budget ledger: the number of calls a run makes
MaxBudgetCalls == 4

\* the categories budgets are set and removed with
BudgetCategories == {Str_Food, Str_food, Str_PET_CARE}
\* the limits set_budget is called with
BudgetLimits == {10, 0, 0 - 5}
\* the amounts and dates of the expenses recorded next to the budgets: two
\* days of January 2024, the second written without leading zeros
SpendAmounts == {[num |-> 8], [num |-> 2]}
SpendDates == {<<2024, 1, 1>>, <<2024, 1, 5, "short">>}
\* the months datetime.now() falls in when alerts are computed
Months == {<<2024, 1>>, <<2024, 2>>}

SetBudget(C, L) ==
    \E category \in C, amount \in L :
       Call("set_budget", set_budget(Self, category, amount))

RemoveBudget(C) ==
    \E category \in C : Call("remove_budget", remove_budget(Self, category))

CheckBudgetAlerts(M) ==
    \E current_month \in M :
       Call("check_budget_alerts", check_budget_alerts(Self, current_month))

InitBudget ==
    /\ expenses = <<>>
    /\ categories = DefaultCategories
    /\ last_deleted = None
    /\ last_cleared = None
    /\ budgets = <<>>
    /\ file = None
    /\ budget_file = None
    /\ writable = TRUE
    /\ name_text = <<>>
    /\ calls_left = MaxBudgetCalls
    /\ op = NoOp
    /\ before = None

\* the budget operations next to the expense and category operations that
\* decide the spelling of a budget key and the spending of a month
NextBudget ==
    \/ SetBudget(BudgetCategories, BudgetLimits)
    \/ RemoveBudget(BudgetCategories)
    \/ CheckBudgetAlerts(Months)
    \/ AddExpense({Str_food}, SpendAmounts, SpendDates)
    \/ UpdateExpense({Str_food}, NewCategoryInputs({Str_pet_care}))
    \/ RemoveCategory({Str_Food}, {None})

SpecBudget == InitBudget /\ [][NextBudget]_vars

\* the expense file: the number of calls a run makes
MaxFileCalls == 4

SaveData == Call("save_data", Return(save_data(Self), FALSE, <<>>))

LoadExpense == Call("load_expense", load_expense(Self))

\* the environment: writing to the disk starts or stops working
SetWritable ==
    /\ writable' = ~writable
    /\ UNCHANGED <<expenses, categories, last_deleted, last_cleared, budgets, file,
                   budget_file, name_text, calls_left, op, before>>

InitFile ==
    /\ expenses = <<>>
    /\ categories = DefaultCategories
    /\ last_deleted = None
    /\ last_cleared = None
    /\ budgets = <<>>
    /\ file = None
    /\ budget_file = None
    /\ writable = TRUE
    /\ name_text = <<>>
    /\ calls_left = MaxFileCalls
    /\ op = NoOp
    /\ before = None

\* saving and loading next to the operations that store records with and
\* without an id
NextFile ==
    \/ SaveData
    \/ LoadExpense
    \/ SetWritable
    \/ AddExpense(ExpenseCategories, {[num |-> 10]}, ValidDates)
    \/ UpdateExpense(ExpenseCategories, {[amount |-> [num |-> 20]]})

SpecFile == InitFile /\ [][NextFile]_vars

\* persistence: the number of calls a run makes
MaxPersistCalls == 3

InitPersist ==
    /\ expenses = <<>>
    /\ categories = DefaultCategories
    /\ last_deleted = None
    /\ last_cleared = None
    /\ budgets = <<>>
    /\ file = None
    /\ budget_file = None
    /\ writable = TRUE
    /\ name_text = <<>>
    /\ calls_left = MaxPersistCalls
    /\ op = NoOp
    /\ before = None

\* every operation that writes a file, on a disk that may stop taking writes
NextPersist ==
    \/ SetWritable
    \/ AddExpense(ExpenseCategories, {[num |-> 10]}, ValidDates)
    \/ DeleteExpense(ExpenseCategories, {[idx |-> 0]})
    \/ UndoDelete
    \/ UpdateExpense(ExpenseCategories, NewCategoryInputs(ExpenseCategories))
    \/ ClearAll
    \/ UndoClear
    \/ AddCategory(AllCategories, MergeTargets)
    \/ RemoveCategory(AllCategories, MergeTargets)
    \/ MigrateCategories
    \/ AutoMerge
    \/ SetBudget(BudgetCategories, {10})
    \/ RemoveBudget(BudgetCategories)

SpecPersist == InitPersist /\ [][NextPersist]_vars

\* normalize_category_name on its own: the longest str it is called with
MaxLen == 4
\* the number of times it is applied to what it returned
MaxNameCalls == 2

\* the characters of the names: a lower-case and an upper-case letter, the
\* space, and U+0149
NameAlphabet == {"a", "B", " ", Chr_0149}
Strings == UNION {[1..n -> NameAlphabet] : n \in 0..MaxLen}

NormalizeCategoryName ==
    /\ calls_left > 0
    /\ calls_left' = calls_left - 1
    /\ name_text' = normalize_category_name(name_text)
    /\ op' = [name |-> "normalize_category_name", ret |-> TRUE, msg |-> name_text,
              n |-> 0, raised |-> FALSE]
    /\ UNCHANGED <<expenses, categories, last_deleted, last_cleared, budgets, file,
                   budget_file, writable, before>>

InitName ==
    /\ expenses = <<>>
    /\ categories = DefaultCategories
    /\ last_deleted = None
    /\ last_cleared = None
    /\ budgets = <<>>
    /\ file = None
    /\ budget_file = None
    /\ writable = TRUE
    /\ name_text \in Strings
    /\ calls_left = MaxNameCalls
    /\ op = NoOp
    /\ before = None

NextName == NormalizeCategoryName

SpecName == InitName /\ [][NextName]_vars

\* sorting: the number of calls a run makes
MaxSortCalls == 4

\* dates of three days, the second written without leading zeros
SortDates == {<<2024, 3, 1>>, <<2024, 1, 5, "short">>, <<2024, 2, 1>>}
\* the dates update_expense is given, which it stores unchecked: a day, no
\* date at all ("") and the 30th of February
NewDateInputs == {[date |-> <<2024, 1, 1>>], [date |-> <<>>], [date |-> <<2024, 2, 30>>]}

GetSortedExpenses == Call("get_sorted_expenses", get_sorted_expenses(Self))

InitSort ==
    /\ expenses = <<>>
    /\ categories = DefaultCategories
    /\ last_deleted = None
    /\ last_cleared = None
    /\ budgets = <<>>
    /\ file = None
    /\ budget_file = None
    /\ writable = TRUE
    /\ name_text = <<>>
    /\ calls_left = MaxSortCalls
    /\ op = NoOp
    /\ before = None

NextSort ==
    \/ AddExpense({Str_Food}, {[num |-> 10]}, SortDates)
    \/ UpdateExpense({Str_Food}, NewDateInputs)
    \/ GetSortedExpenses

SpecSort == InitSort /\ [][NextSort]_vars

\* the batch operations on a store as a file written elsewhere may hold it:
\* the most names the registry, the expense mapping and the budgets hold
MaxKeys == 2
\* the number of batch operations a run makes
MaxBatchCalls == 2

\* the names: a canonical one, the same in lower case, and U+0149
BatchNames == {Str_Food, Str_food, <<Chr_0149>>}
\* lists of distinct names
KeyLists ==
    UNION {{ks \in [1..n -> BatchNames] : \A i, j \in 1..n : i # j => ks[i] # ks[j]} :
              n \in 0..MaxKeys}
\* dicts with these names as keys and values from V
Dicts(V) ==
    UNION {{[i \in 1..Len(ks) |-> [k |-> ks[i], v |-> f[i]]] : f \in [1..Len(ks) -> V]} :
              ks \in KeyLists}
BatchRecordLists ==
    {<<>>, <<[id |-> 1, amount |-> 10, date |-> <<2024, 1, 1>>, description |-> "Lunch"]>>}
BatchBudgets == {10, 20}

InitBatch ==
    /\ expenses \in Dicts(BatchRecordLists)
    /\ categories \in KeyLists
    /\ last_deleted = None
    /\ last_cleared = None
    /\ budgets \in Dicts(BatchBudgets)
    /\ file = None
    /\ budget_file = None
    /\ writable = TRUE
    /\ name_text = <<>>
    /\ calls_left = MaxBatchCalls
    /\ op = NoOp
    /\ before = None

NextBatch ==
    \/ MigrateCategories
    \/ AutoMerge

SpecBatch == InitBatch /\ [][NextBatch]_vars

-----------------------------------------------------------------------------
(* Claims about the expense operations (Spec).                              *)

\* every stored record, in dict order
RECURSIVE AllStored(_)
AllStored(d) == IF d = <<>> THEN <<>> ELSE d[1].v \o AllStored(Tail(d))

\* the number of elements of xs equal to x
CountIn(xs, x) == Cardinality({i \in 1..Len(xs) : xs[i] = x})
\* two lists hold the same elements the same number of times
SameBag(xs, ys) ==
    /\ Len(xs) = Len(ys)
    /\ \A i \in 1..Len(xs) : CountIn(xs, xs[i]) = CountIn(ys, xs[i])

UndoNames == {"undo_delete", "undo_clear"}

\* the last call came right after a delete_expense that returned true
AfterDelete ==
    /\ before # None
    /\ op.name \notin Reversible
    /\ before[1].name = "delete_expense"
    /\ before[1].ret
\* the last call came right after a clear_all
AfterClear ==
    /\ before # None
    /\ op.name \notin Reversible
    /\ before[1].name = "clear_all"

\* C1: every record held in the store carries an id, and no two records held
\* at the same time have the same id.
C1_UniqueIds ==
    LET rs == AllStored(expenses) IN
    /\ \A i \in 1..Len(rs) : "id" \in DOMAIN rs[i]
    /\ \A i, j \in 1..Len(rs) : i # j => GetId(rs[i], 0) # GetId(rs[j], 0)

\* C2: undo_delete called right after a delete_expense that returned true
\* returns true and leaves the expense mapping (each category's records, in
\* order) and the registry as they were before the delete.
C2_UndoDeleteRestores ==
    (op.name = "undo_delete" /\ AfterDelete) =>
        /\ op.ret
        /\ DictEq(expenses, before[1].expenses)
        /\ categories = before[1].categories

\* C3: undo_clear called right after clear_all leaves the expense mapping and
\* the registry as they were before clear_all, and returns true whenever the
\* mapping had a key before the clear.
C3_UndoClearRestores ==
    (op.name = "undo_clear" /\ AfterClear) =>
        /\ DictEq(expenses, before[1].expenses)
        /\ categories = before[1].categories
        /\ (before[1].expenses # <<>> => op.ret)

\* undo_clear has just restored a store with records, right after clear_all
C3_Witness ==
    /\ op.name = "undo_clear"
    /\ AfterClear
    /\ op.ret
    /\ CountRecords(expenses) >= 2

\* C4: after an undo (undo_delete or undo_clear) that returned true, an undo
\* called right afterwards returns false and changes neither the expense
\* mapping, nor the registry, nor the undo state.
C4_SecondUndoFails ==
    [][(op.name \in UndoNames /\ op.ret /\ op'.name \in UndoNames) =>
          /\ ~op'.ret
          /\ UNCHANGED <<expenses, categories, last_deleted, last_cleared>>]_vars

\* C5: at most one undo payload is pending, and undo_delete called right
\* after a delete_expense that returned true puts the deleted record back
\* (the store holds the records it held before the delete), also when a
\* clear_all came earlier.
C5_SingleUndoSlot ==
    /\ ~(last_deleted # None /\ last_cleared # None)
    /\ (op.name = "undo_delete" /\ AfterDelete) =>
          /\ op.ret
          /\ KeySet(before[1].expenses) \subseteq KeySet(expenses)
          /\ \A k \in KeySet(before[1].expenses) :
                SameBag(Get(expenses, k), Get(before[1].expenses, k))

-----------------------------------------------------------------------------
(* Claims about the category operations (SpecCat).                          *)

\* the canonical spelling of each name the callers pass, written out
CanonicalOf(c) ==
    IF c \in {Str_Food, Str_food} THEN Str_Food
    ELSE IF c \in {Str_pet_care, Str_Pet_Care} THEN Str_Pet_Care
    ELSE c

\* a name in canonical form: words separated by single spaces, each with no
\* lower-case first letter and no upper-case letter after the first
IsCanonical(name) ==
    \A i \in 1..Len(name) :
        IF IsSpace(name[i])
        THEN i > 1 /\ i < Len(name) /\ ~IsSpace(name[i + 1])
        ELSE IF i = 1 \/ IsSpace(name[i - 1])
             THEN ~IsLowerChar(name[i])
             ELSE ~IsUpperChar(name[i])

\* the entries of a registry that equal the name ignoring case
EntriesFor(cats, name) == {i \in 1..Len(cats) : lower(cats[i]) = lower(name)}

C7_BothSucceed ==
    \A n \in AllCategories, n2 \in AllCategories :
        (n # n2 /\ lower(n) = lower(n2)) =>
            LET r1 == add_category(Self, n, None)
                r2 == add_category(r1.self, n2, None)
            IN /\ r1.ret
               /\ r2.ret
               /\ Cardinality(EntriesFor(r2.self.categories, n)) = 1
               /\ Contains(r2.self.categories, CanonicalOf(n))

\* C7 (amended): add_category(n) succeeds when n is not registered yet or is
\* the registered spelling; add_category(n2) right afterwards, n2 differing
\* from n only in letter case, succeeds only when n2 is the canonical
\* spelling and else returns (False, "already exists" with that spelling);
\* either way the registry then holds one entry for the name, the canonical
\* spelling; add_category of a name of another class adds one more entry.
C7_SecondSucceedsIfCanonical ==
    \A n \in AllCategories, n2 \in AllCategories :
        (n # n2 /\ lower(n) = lower(n2)) =>
            LET r1 == add_category(Self, n, None)
                r2 == add_category(r1.self, n2, None)
                canon == CanonicalOf(n)
            IN /\ r1.ret = (n = canon \/ EntriesFor(categories, n) = {})
               /\ r2.ret = (n2 = canon)
               /\ ~r2.ret => (r2.msg[1] = "already exists" /\ r2.msg[2] = canon)
               /\ Cardinality(EntriesFor(r2.self.categories, n)) = 1
               /\ Contains(r2.self.categories, canon)
               /\ \A m \in AllCategories :
                     EntriesFor(r2.self.categories, CanonicalOf(m)) = {} =>
                        LET r3 == add_category(r2.self, m, None)
                        IN /\ r3.ret
                           /\ Len(r3.self.categories) = Len(r2.self.categories) + 1
                           /\ Contains(r3.self.categories, CanonicalOf(m))
                           /\ Cardinality(EntriesFor(r3.self.categories, n)) = 1

\* add_category has just refused "food" because "Food" is registered
C7_Witness ==
    /\ op.name = "add_category"
    /\ ~op.ret
    /\ op.msg = <<"already exists", Str_Food, Str_food>>
    /\ Cardinality(EntriesFor(categories, Str_food)) = 1

\* C8: add_category without merge target of a registered name returns
\* success when the spelling is the registered one, and (False, a message
\* with "already exists" and the registered spelling) when it differs in
\* letter case; the registry and the expense mapping stay as they are.
C8_RegisteredName ==
    \A c \in AllCategories : \A i \in EntriesFor(categories, c) :
        LET r == add_category(Self, c, None)
        IN /\ c = categories[i] => r.ret
           /\ c # categories[i] =>
                 (~r.ret /\ r.msg[1] = "already exists" /\ r.msg[2] = categories[i])
           /\ r.self.categories = categories
           /\ r.self.expenses = expenses

\* add_category has just accepted the registered spelling of a name again
C8_Witness ==
    /\ op.name = "add_category"
    /\ op.ret
    /\ op.msg[1] = "is already in your list"
    /\ Contains(categories, op.msg[2])

\* the list a dict holds for a key, empty when the key is missing
ListOf(d, k) == IF HasKey(d, k) THEN Get(d, k) ELSE <<>>

\* C9: for a registered category c with at least one record and a merge
\* target t with another canonical name (None standing for "Uncategorized"),
\* remove_category(c, t) returns success, the list of t's canonical name is
\* its former list followed by the records of c, t is registered, and c is
\* gone from the registry and from the expense mapping.
C9_RemoveMerges ==
    \A c \in AllCategories, t \in Optional(AllCategories) :
        LET source == CanonicalOf(c)
            target == IF t = None THEN Str_Uncategorized ELSE CanonicalOf(t[1])
        IN (/\ Contains(categories, source)
            /\ ListOf(expenses, source) # <<>>
            /\ target # source) =>
               LET r == remove_category(Self, c, t)
               IN /\ r.ret
                  /\ ListOf(r.self.expenses, target)
                        = ListOf(expenses, target) \o ListOf(expenses, source)
                  /\ Contains(r.self.categories, target)
                  /\ ~Contains(r.self.categories, source)
                  /\ ~HasKey(r.self.expenses, source)

\* remove_category has just moved records behind the ones its target held
C9_Witness ==
    /\ op.name = "remove_category"
    /\ op.ret
    /\ ~HasKey(expenses, op.msg[2])
    /\ ~Contains(categories, op.msg[2])
    /\ \E i \in 1..Len(expenses) : Len(expenses[i].v) >= 2

\* C10: after a remove_category that returned success, "Uncategorized" is a
\* name in the registry.
C10_UncategorizedKept ==
    (op.name = "remove_category" /\ op.ret) => Contains(categories, Str_Uncategorized)

-----------------------------------------------------------------------------
(* Claims about validation and lookup failures.                             *)

\* amounts add_expense has to refuse: zero, a negative number, a text that
\* is no number
InvalidAmounts == {[num |-> 0], [num |-> 0 - 5], [str |-> "abc"]}

\* date texts that are no YYYY-MM-DD calendar date: 2024-02-30, 2024-13-01,
\* and 2024-1-5, which is not written as YYYY-MM-DD
InvalidDates == {<<2024, 2, 30>>, <<2024, 13, 1>>, <<2024, 1, 5, "short">>}

\* C11: add_expense with an amount that is no number or is not above zero,
\* or with a date that is no valid YYYY-MM-DD calendar date, raises and
\* leaves the expense mapping, the registry, the undo state and the saved
\* file as they were, whatever the category and the state.
C11_InvalidInputRejected ==
    \A c \in AllCategories,
       a \in ValidAmounts \cup InvalidAmounts,
       d \in ValidDates \cup InvalidDates :
        (a \in InvalidAmounts \/ d \in InvalidDates) =>
            LET r == add_expense(Self, c, a, d, "Lunch")
            IN /\ r.raised
               /\ r.self.expenses = expenses
               /\ r.self.categories = categories
               /\ r.self.last_deleted = last_deleted
               /\ r.self.last_cleared = last_cleared
               /\ r.self.file = file

\* the subtotal get_category_subtotals reports for a key, 0 without the key
SubtotalOf(self, k) ==
    LET t == get_category_subtotals(self) IN IF HasKey(t, k) THEN Get(t, k) ELSE 0

UnknownRecords ==
    {[amount |-> float(a), date |-> d, description |-> "Dinner"] :
        a \in ValidAmounts, d \in ValidDates}
    \cup {[id |-> 1, amount |-> float(a), date |-> d, description |-> "Dinner"] :
            a \in ValidAmounts, d \in ValidDates}

\* a position or a dict finds no record in the list
LookupFails(list, x) ==
    IF "idx" \in DOMAIN x
    THEN x.idx < 0 \/ x.idx >= Len(list)
    ELSE \A i \in 1..Len(list) :
            \/ list[i].amount # x.rec.amount
            \/ list[i].date # x.rec.date
            \/ list[i].description # x.rec.description

\* C13: delete_expense and update_expense on a category without records, an
\* index out of range or a record that matches nothing return False, and
\* remove_category of an unregistered name returns (False, "Category not
\* found"); none of them raises and each leaves the object as it was.
C13_LookupFailureNoOp ==
    /\ \A c \in AllCategories :
          LET list == ListOf(expenses, CanonicalOf(c)) IN
          /\ \A x \in {[idx |-> i] : i \in (0 - 1)..MaxIndex}
                      \cup {[rec |-> r] : r \in RecordInputs \cup UnknownRecords} :
                LookupFails(list, x) =>
                    LET r == delete_expense(Self, c, x)
                    IN ~r.ret /\ ~r.raised /\ r.self = Self
          /\ \A old \in RecordInputs \cup UnknownRecords,
                nd \in NewDataInputs(AllCategories) \cup {[amount |-> [str |-> "abc"]]} :
                (\A i \in 1..Len(list) : list[i] # old) =>
                    LET r == update_expense(Self, c, old, nd)
                    IN ~r.ret /\ ~r.raised /\ r.self = Self
    /\ \A c \in AllCategories, t \in Optional(AllCategories) :
          ~Contains(categories, CanonicalOf(c)) =>
              LET r == remove_category(Self, c, t)
              IN /\ ~r.ret /\ ~r.raised
                 /\ r.msg = <<"Category not found">>
                 /\ r.self = Self

\* a lookup has just failed on a store that holds records
C13_Witness ==
    /\ op.name \in {"delete_expense", "update_expense", "remove_category"}
    /\ ~op.ret
    /\ ~op.raised
    /\ expenses # <<>>
    /\ \E i \in 1..Len(expenses) : expenses[i].v # <<>>

\* C14: update_expense is never partially applied: when the old record is
\* found and new_data carries an amount that is no number, so that the call
\* raises, the expense mapping is as before the call and still holds the old
\* record in its category.
C14_UpdateNeverPartial ==
    \A c \in AllCategories :
        LET list == ListOf(expenses, CanonicalOf(c)) IN
        \A i \in 1..Len(list) :
            LET r == update_expense(Self, c, list[i], [amount |-> [str |-> "abc"]])
            IN r.raised =>
                  /\ r.self.expenses = expenses
                  /\ Contains(ListOf(r.self.expenses, CanonicalOf(c)), list[i])

-----------------------------------------------------------------------------
(* Claims about the budget ledger (SpecBudget).                             *)

\* the amounts of the records of a list dated in the month <<y, m>>,
\* however the date is written
RECURSIVE SumInMonth(_, _, _)
SumInMonth(records, i, month) ==
    IF i > Len(records) THEN 0
    ELSE (IF /\ Len(records[i].date) >= 2
             /\ records[i].date[1] = month[1]
             /\ records[i].date[2] = month[2]
          THEN records[i].amount ELSE 0)
         + SumInMonth(records, i + 1, month)

\* the spend of a month for a budget key: the records of the month in the
\* categories that equal the key ignoring case
RECURSIVE SpendFrom(_, _, _, _)
SpendFrom(d, i, key, month) ==
    IF i > Len(d) THEN 0
    ELSE (IF lower(d[i].k) = lower(key) THEN SumInMonth(d[i].v, 1, month) ELSE 0)
         + SpendFrom(d, i + 1, key, month)

\* the alerts of a list that are about a category
AlertsAbout(alerts, k) == {j \in 1..Len(alerts) : alerts[j].category = k}

\* C15: check_budget_alerts returns at most one alert per budgeted category:
\* an "exceeded" alert with overspend = spend - limit when spend > limit, an
\* "approaching" alert when 0.8 * limit < spend <= limit, none otherwise,
\* where spend is the sum of the records of the current month in the
\* category ignoring case; without budgets the result is empty; with limit
\* 500, a spend of 600 gives an alert with overspend 100, 450 a warning and
\* 300 no alert.
C15_AlertsPerBudget ==
    /\ \A m \in Months :
          LET alerts == check_budget_alerts(Self, m).msg IN
          /\ budgets = <<>> => alerts = <<>>
          /\ \A i \in 1..Len(budgets) :
                LET k == budgets[i].k
                    limit == budgets[i].v
                    spend == SpendFrom(expenses, 1, k, m)
                    mine == AlertsAbout(alerts, k)
                IN /\ Cardinality(mine) <= 1
                   /\ spend > limit =>
                         \E j \in mine : /\ alerts[j].kind = "exceeded"
                                         /\ alerts[j].over = spend - limit
                   /\ (spend * 10 > limit * 8 /\ spend <= limit) =>
                         \E j \in mine : alerts[j].kind = "approaching"
                   /\ spend * 10 <= limit * 8 => mine = {}
    /\ alert_for(Str_Food, 600, 500) # None
    /\ alert_for(Str_Food, 600, 500)[1].kind = "exceeded"
    /\ alert_for(Str_Food, 600, 500)[1].over = 100
    /\ alert_for(Str_Food, 450, 500) # None
    /\ alert_for(Str_Food, 450, 500)[1].kind = "approaching"
    /\ alert_for(Str_Food, 300, 500) = None

\* C16 (as claimed): for a limit above zero, a category whose spend of the
\* month is exactly 0.8 * limit gets a warning, one whose spend is exactly
\* the limit gets a warning, and only a spend above the limit gets an
\* "exceeded" alert.
C16_ClosedWarning ==
    \A m \in Months :
        LET alerts == check_budget_alerts(Self, m).msg IN
        \A i \in 1..Len(budgets) :
            LET k == budgets[i].k
                limit == budgets[i].v
                spend == _get_monthly_spending(Self, k, m)
                mine == AlertsAbout(alerts, k)
            IN limit > 0 =>
                  /\ spend * 10 = limit * 8 =>
                        \E j \in mine : alerts[j].kind = "approaching"
                  /\ spend = limit =>
                        \E j \in mine : alerts[j].kind = "approaching"
                  /\ (\E j \in mine : alerts[j].kind = "exceeded") => spend > limit

\* C16 (amended): for a limit above zero the warning interval is open at
\* 0.8 * limit: a spend of exactly 0.8 * limit (or less) gets no alert, a
\* spend above 0.8 * limit up to and including the limit gets one warning,
\* and a spend above the limit, and only that, gets one "exceeded" alert.
C16_OpenWarning ==
    \A m \in Months :
        LET alerts == check_budget_alerts(Self, m).msg IN
        \A i \in 1..Len(budgets) :
            LET k == budgets[i].k
                limit == budgets[i].v
                spend == _get_monthly_spending(Self, k, m)
                mine == AlertsAbout(alerts, k)
            IN limit > 0 =>
                  /\ Cardinality(mine) <= 1
                  /\ spend * 10 <= limit * 8 => mine = {}
                  /\ (spend * 10 > limit * 8 /\ spend <= limit) =>
                        \E j \in mine : alerts[j].kind = "approaching"
                  /\ spend > limit =>
                        \E j \in mine : alerts[j].kind = "exceeded"
                  /\ (\E j \in mine : alerts[j].kind = "exceeded") => spend > limit

\* check_budget_alerts has just warned about a spend equal to the limit
C16_Witness ==
    /\ op.name = "check_budget_alerts"
    /\ \E j \in 1..Len(op.msg) :
          /\ op.msg[j].kind = "approaching"
          /\ op.msg[j].spent = op.msg[j].limit
          /\ op.msg[j].limit > 0

\* the names of a set that equal a name ignoring case
SameIgnoringCase(names, c) == {n \in names : lower(n) = lower(c)}

\* the categories that hold a record
CategoriesWithRecords == {expenses[i].k : i \in {j \in 1..Len(expenses) : expenses[j].v # <<>>}}

\* the spelling a budget for c is expected under
BudgetKeyFor(c) ==
    LET b == SameIgnoringCase(KeySet(budgets), c)
        g == SameIgnoringCase({categories[i] : i \in 1..Len(categories)}, c)
        e == SameIgnoringCase(CategoriesWithRecords, c)
    IN IF b # {} THEN CHOOSE n \in b : TRUE
       ELSE IF g # {} THEN CHOOSE n \in g : TRUE
       ELSE IF e # {} THEN CHOOSE n \in e : TRUE
       ELSE c

C18_LimitsPositive ==
    /\ \A i \in 1..Len(budgets) : budgets[i].v > 0
    /\ \A c \in BudgetCategories, a \in BudgetLimits :
          a <= 0 =>
              LET r == set_budget(Self, c, a)
              IN ~r.ret /\ r.self.budgets = budgets

-----------------------------------------------------------------------------
(* Claims about the expense file (SpecFile).                                *)

\* a loaded store is the original one up to ids given to records without
EquivalentStore(loaded, orig) ==
    /\ loaded.categories = orig.categories
    /\ Keys(loaded.expenses) = Keys(orig.expenses)
    /\ \A i \in 1..Len(orig.expenses) :
          /\ Len(loaded.expenses[i].v) = Len(orig.expenses[i].v)
          /\ \A j \in 1..Len(orig.expenses[i].v) :
                LET a == loaded.expenses[i].v[j]
                    b == orig.expenses[i].v[j]
                IN IF "id" \in DOMAIN b THEN a = b
                   ELSE /\ DOMAIN a = DOMAIN b \cup {"id"}
                        /\ \A n \in DOMAIN b : a[n] = b[n]

\* the object a new DataManager is before it loads the file of another one
FreshWith(self) ==
    [self EXCEPT !.expenses = <<>>, !.categories = DefaultCategories,
                 !.last_deleted = None, !.last_cleared = None]

\* C19: when the write succeeds, save_data followed by load_expense of the
\* file, by the same object or by a new one, gives the registry in the same
\* order, the same category keys and per category the same records in the
\* same order, but for ids given to records that had none.
C19_SaveLoadRoundTrip ==
    writable =>
        LET saved == save_data(Self)
        IN /\ EquivalentStore(load_expense(saved).self, Self)
           /\ EquivalentStore(load_expense(FreshWith(saved)).self, Self)

\* load_expense has just read a saved file whose registry is not the
\* starter one and which holds a record without an id
C19_Witness ==
    /\ op.name = "load_expense"
    /\ op.msg = <<"Loaded">>
    /\ writable
    /\ categories # DefaultCategories
    /\ file # None
    /\ LET rs == AllStored(json_load(file[1]).expenses)
       IN \E i \in 1..Len(rs) : "id" \notin DOMAIN rs[i]

\* the ids of the records of a mapping are pairwise distinct
DistinctIds(d) ==
    LET rs == AllStored(d)
        with == {i \in 1..Len(rs) : "id" \in DOMAIN rs[i]}
    IN \A i \in with, j \in with : i # j => rs[i].id # rs[j].id

\* C20: after load_expense of a well-formed file every record has an id,
\* every record that had an id in the file keeps it, and the ids of the
\* loaded store are pairwise distinct whenever those in the file were.
C20_LoadedIdsDistinct ==
    file # None =>
        LET in_file == json_load(file[1]).expenses
            loaded == load_expense(Self).self.expenses
        IN /\ \A i \in 1..Len(loaded) : \A j \in 1..Len(loaded[i].v) :
                 /\ "id" \in DOMAIN loaded[i].v[j]
                 /\ "id" \in DOMAIN in_file[i].v[j] =>
                       loaded[i].v[j].id = in_file[i].v[j].id
           /\ DistinctIds(in_file) => DistinctIds(loaded)

-----------------------------------------------------------------------------
(* Claims about persistence (SpecPersist).                                  *)

\* the calls of the mutating operations, as <<name, arguments...>>
ExpenseCalls ==
    {<<"add_expense", c, a, d>> : c \in ExpenseCategories, a \in {[num |-> 10]},
                                   d \in ValidDates}
    \cup {<<"delete_expense", c, [idx |-> 0]>> : c \in ExpenseCategories}
    \cup {<<"undo_delete">>}
    \cup {<<"update_expense", c, r, n>> : c \in ExpenseCategories, r \in RecordInputs,
                                          n \in NewCategoryInputs(ExpenseCategories)}
CategoryCalls ==
    {<<"add_category", c, t>> : c \in AllCategories, t \in MergeTargets}
    \cup {<<"remove_category", c, t>> : c \in AllCategories, t \in MergeTargets}
BudgetCalls ==
    {<<"set_budget", c, 10>> : c \in BudgetCategories}
    \cup {<<"remove_budget", c>> : c \in BudgetCategories}
BatchCalls ==
    {<<"clear_all">>, <<"undo_clear">>, <<"migrate_categories_to_proper_case">>,
     <<"auto_merge_duplicate_categories">>}

\* what the call leaves when made on self
Apply(self, call) ==
    CASE call[1] = "add_expense" -> add_expense(self, call[2], call[3], call[4], "Lunch")
      [] call[1] = "delete_expense" -> delete_expense(self, call[2], call[3])
      [] call[1] = "undo_delete" -> undo_delete(self)
      [] call[1] = "update_expense" -> update_expense(self, call[2], call[3], call[4])
      [] call[1] = "add_category" -> add_category(self, call[2], call[3])
      [] call[1] = "remove_category" -> remove_category(self, call[2], call[3])
      [] call[1] = "set_budget" -> set_budget(self, call[2], call[3])
      [] call[1] = "remove_budget" -> remove_budget(self, call[2])
      [] call[1] = "clear_all" -> clear_all(self)
      [] call[1] = "undo_clear" -> undo_clear(self)
      [] call[1] = "migrate_categories_to_proper_case" ->
            migrate_categories_to_proper_case(self)
      [] call[1] = "auto_merge_duplicate_categories" ->
            auto_merge_duplicate_categories(self)

\* the files hold what the object holds; a file that was never written
\* stands for the store, and the budgets, a new object starts with
Persisted(self) ==
    /\ IF self.file = None
       THEN self.expenses = <<>> /\ self.categories = DefaultCategories
       ELSE self.file = Some(json_dump([expenses |-> self.expenses,
                                        categories |-> self.categories]))
    /\ IF self.budget_file = None THEN self.budgets = <<>>
       ELSE self.budget_file = Some(self.budgets)

InMemory(self) ==
    <<self.expenses, self.categories, self.budgets, self.last_deleted, self.last_cleared>>

\* C21: while writes succeed and the files are up to date, every mutating
\* operation that returns after changing the expense mapping, the registry
\* or the budgets leaves both files equal to what is in memory.
C21_PersistedAfterChange ==
    (writable /\ Persisted(Self)) =>
        \A call \in ExpenseCalls \cup CategoryCalls \cup BudgetCalls \cup BatchCalls :
            LET r == Apply(Self, call)
            IN (/\ ~r.raised
                /\ <<r.self.expenses, r.self.categories, r.self.budgets>>
                      # <<expenses, categories, budgets>>)
               => Persisted(r.self)

\* the call writes a file when it is made on self
Writes(self, call) ==
    LET r == Apply([self EXCEPT !.file = None, !.budget_file = None,
                                !.writable = TRUE], call)
    IN r.self.file # None \/ r.self.budget_file # None

\* C22: when the write of a mutating operation of the store or the ledger
\* fails, the operation does not raise, keeps its change in memory and
\* returns what it returns when the write succeeds.
C22_BestEffort ==
    \A call \in ExpenseCalls \cup CategoryCalls \cup BudgetCalls :
        Writes(Self, call) =>
            LET ok == Apply([Self EXCEPT !.writable = TRUE], call)
                failed == Apply([Self EXCEPT !.writable = FALSE], call)
            IN /\ ~failed.raised
               /\ InMemory(failed.self) = InMemory(ok.self)
               /\ failed.ret = ok.ret
               /\ failed.msg = ok.msg

-----------------------------------------------------------------------------
(* Claims about normalize_category_name (SpecName).                         *)

\* a word with its first letter in upper case and the rest in lower case
Capitalized(w) ==
    <<UpperChar(w[1])>> \o [i \in 1..(Len(w) - 1) |-> LowerChar(w[i + 1])]

\* C23: normalize_category_name is idempotent on every str, and a str that
\* is not blank gives its whitespace-separated words, each with the first
\* letter in upper case and the rest in lower case, joined by single spaces.
C23_NormalizeIdempotent ==
    LET once == normalize_category_name(name_text)
    IN /\ normalize_category_name(once) = once
       /\ strip(name_text) # <<>> =>
             once = join([i \in 1..Len(split(name_text)) |-> Capitalized(split(name_text)[i])])

-----------------------------------------------------------------------------
(* Claims about the category lookup and the batch operations.               *)

\* the names category_exists is asked about
LookupNames == AllCategories \cup {Str_Pet_Care, Str_PET_CARE}

\* the names of a list that equal name once both are lower-cased
EqualIgnoringCase(names, name) ==
    {names[i] : i \in {j \in 1..Len(names) : lower(names[j]) = lower(name)}}

\* category_exists finds name when name equals, ignoring case, a name of
\* the registry
RegistryLookup ==
    \A name \in LookupNames :
        LET e == category_exists(Self, name)
            registered == EqualIgnoringCase(categories, name)
        IN registered # {} => (e.found /\ e.name \in registered)

\* C24: category_exists(name) returns (True, existing spelling) whenever
\* name equals, ignoring case, a name of the registry or, when the registry
\* has none, a category key of the expense mapping.
C24_CategoryExists ==
    /\ RegistryLookup
    /\ \A name \in LookupNames :
          LET e == category_exists(Self, name)
              registered == EqualIgnoringCase(categories, name)
              keys == EqualIgnoringCase(Keys(expenses), name)
          IN (registered = {} /\ keys # {}) => (e.found /\ e.name \in keys)


\* C29: in every state reached from the starter store, every category key
\* of the expense mapping that holds a record is a name of the registry.
C29_KeysRegistered ==
    \A i \in 1..Len(expenses) :
        expenses[i].v # <<>> => Contains(categories, expenses[i].k)

\* the same for the calls other than update_expense, undo_delete and
\* undo_clear
KeysRegisteredByOthers ==
    [][(/\ op'.name \notin {"update_expense", "undo_delete", "undo_clear"}
        /\ C29_KeysRegistered)
       => C29_KeysRegistered']_vars


\* C25: migrate_categories_to_proper_case and
\* auto_merge_duplicate_categories are idempotent: from any registry,
\* expense mapping and budgets, the second application leaves all three as
\* the first one left them and reports zero changes.
C25_BatchIdempotent ==
    /\ LET once == migrate_categories_to_proper_case(Self)
           twice == migrate_categories_to_proper_case(once.self)
       IN /\ <<twice.self.categories, twice.self.expenses, twice.self.budgets>>
                = <<once.self.categories, once.self.expenses, once.self.budgets>>
          /\ twice.n = 0
    /\ LET once == auto_merge_duplicate_categories(Self)
           twice == auto_merge_duplicate_categories(once.self)
       IN /\ <<twice.self.categories, twice.self.expenses, twice.self.budgets>>
                = <<once.self.categories, once.self.expenses, once.self.budgets>>
          /\ twice.n = 0

\* no two names of the list have the same canonical name
NoCollision(names) ==
    \A i, j \in 1..Len(names) :
        i # j => normalize_category_name(names[i]) # normalize_category_name(names[j])

\* the records of the keys of d whose canonical name is c, in dict order
RECURSIVE RecordsOfCanonical(_, _)
RecordsOfCanonical(d, c) ==
    IF d = <<>> THEN <<>>
    ELSE (IF normalize_category_name(d[1].k) = c THEN d[1].v ELSE <<>>)
         \o RecordsOfCanonical(Tail(d), c)

\* after the call no two names collide and every record is held once, under
\* the canonical name of the key it was under
Consolidated(self, after) ==
    /\ NoCollision(after.categories)
    /\ NoCollision(Keys(after.expenses))
    /\ NoCollision(Keys(after.budgets))
    /\ CountRecords(after.expenses) = CountRecords(self.expenses)
    /\ \A i \in 1..Len(self.expenses) :
          LET c == normalize_category_name(self.expenses[i].k)
          IN self.expenses[i].v # <<>> =>
                SameBag(ListOf(after.expenses, c), RecordsOfCanonical(self.expenses, c))

\* C26: after migrate_categories_to_proper_case, and after
\* auto_merge_duplicate_categories, run on any state, no two registry names,
\* expense keys or budget keys have the same canonical name, and every
\* record of the store is in it once, under the canonical name of its
\* former category.
C26_BatchConsolidates ==
    /\ Consolidated(Self, migrate_categories_to_proper_case(Self).self)
    /\ Consolidated(Self, auto_merge_duplicate_categories(Self).self)


\* the merge targets add_category is given for a registered source
RegisteredTargets == {Str_Travel, Str_Uncategorized, Str_Pet_Care}

\* C27: for a source category c that is registered and holds records, and
\* a different registered target t, add_category(c, merge_target=t) moves
\* the whole record list of c behind t's list, removes c from the registry
\* and from the expense mapping, and keeps the number of records.
C27_AddCategoryMerges ==
    \A i \in 1..Len(expenses), t \in RegisteredTargets :
        LET c == expenses[i].k
        IN (/\ Contains(categories, c)
            /\ expenses[i].v # <<>>
            /\ Contains(categories, t)
            /\ t # c) =>
               LET r == add_category(Self, c, Some(t))
               IN /\ ~r.raised
                  /\ ListOf(r.self.expenses, t) = ListOf(expenses, t) \o expenses[i].v
                  /\ ~HasKey(r.self.expenses, c)
                  /\ ~Contains(r.self.categories, c)
                  /\ CountRecords(r.self.expenses) = CountRecords(expenses)

\* the merge targets remove_category is given: none, other categories, and
\* spellings of the removed category itself
RemoveTargets == Optional(AllCategories \cup {Str_Pet_Care})

\* remove_category keeps the records when it is called with these
RecordsKept(C, T) ==
    \A category \in C, merge_to \in T :
        LET r == remove_category(Self, category, merge_to)
        IN r.ret => SameBag(AllStored(r.self.expenses), AllStored(expenses))

\* C30: remove_category never loses or duplicates records: for every
\* registered category and every merge target, a target that normalizes to
\* the removed category and the removal of "Uncategorized" with the default
\* target included, the store holds the same multiset of records after a
\* successful call as before it.
C30_RemoveKeepsRecords == RecordsKept(AllCategories \cup {Str_Pet_Care}, RemoveTargets)

\* the same when the target is another category than the removed one
RemoveToOtherKeepsRecords ==
    \A category \in AllCategories \cup {Str_Pet_Care}, merge_to \in RemoveTargets :
        LET r == remove_category(Self, category, merge_to)
            target == IF merge_to = None THEN Str_Uncategorized
                      ELSE normalize_category_name(merge_to[1])
        IN (r.ret /\ target # normalize_category_name(category)) =>
              SameBag(AllStored(r.self.expenses), AllStored(expenses))

-----------------------------------------------------------------------------
(* Claims about get_sorted_expenses (SpecSort).                             *)

\* the record has a date that strptime parses
DateValid(r) == HasDate(r) /\ strptime_ok(r.date)

\* the calendar day of a valid date
DayOf(r) == <<r.date[1], r.date[2], r.date[3]>>

DayLess(a, b) ==
    \E i \in 1..3 : a[i] < b[i] /\ \A j \in 1..(i - 1) : a[j] = b[j]

\* the records with a valid date ascending by date, the others behind them
OrderedByDate(xs) ==
    \A i, j \in 1..Len(xs) :
        i < j => /\ (DateValid(xs[i]) /\ DateValid(xs[j])) => ~DayLess(DayOf(xs[j]), DayOf(xs[i]))
                 /\ ~DateValid(xs[i]) => ~DateValid(xs[j])

\* what get_sorted_expenses returns for the categories chosen by Covers
SortedWhere(Covers(_)) ==
    LET r == get_sorted_expenses(Self)
    IN /\ r.self = Self
       /\ Keys(r.msg) = Keys(expenses)
       /\ \A i \in 1..Len(expenses) :
             Covers(expenses[i].v) =>
                /\ SameBag(r.msg[i].v, expenses[i].v)
                /\ OrderedByDate(r.msg[i].v)

\* C28: get_sorted_expenses returns for every category the same records
\* ascending by date, every record whose date is missing or does not parse
\* behind all records with a valid date, also in a category that mixes
\* both, and it leaves the stored order as it is.
C28_SortedByDate == SortedWhere(LAMBDA records : TRUE)

\* the same for the categories in which every date that is there parses
SortedWhenDatesParse ==
    SortedWhere(LAMBDA records :
        \A i \in 1..Len(records) : HasDate(records[i]) => strptime_ok(records[i].date))

====
